---- MODULE Spec2Model ----
(***************************************************************************)
(* Model of the ScikitBot back-testing core (ml/predictor.py, the sector   *)
(* lookup of ml/trainer.py and the feature pipeline of ml/data.py).        *)
(*                                                                         *)
(* Spec      : one call of simulate(ticker, start, end), one action per    *)
(*             iteration of the day loop plus the terminal step.           *)
(* SpecBT    : backTest(tickers, start, end), one action per ticker, each  *)
(*             action running a whole simulate call.                       *)
(* SpecPD    : one call of process_data(df) of ml/data.py on a bounded     *)
(*             family of input histories.                                  *)
(*                                                                         *)
(* Currency and share amounts are Python floats in the source; they are    *)
(* modelled as exact rationals <<numerator, denominator>> in lowest terms  *)
(* with a positive denominator.                                            *)
(***************************************************************************)
EXTENDS Integers, Sequences, FiniteSets, TLC

\* ---------------------------------------------------------------------
\* Bounds and input domains
\* ---------------------------------------------------------------------
MaxDays == 3

MaxTickers == 2

Prices == {50, 100, 110}

Labels == {-1, 0, 1}

None == "None"

\* ---------------------------------------------------------------------
\* Exact rational arithmetic (the float operators +, -, *, /, <, >)
\* ---------------------------------------------------------------------
Abs(n) == IF n < 0 THEN -n ELSE n

RECURSIVE GCD(_, _)
GCD(a, b) == IF b = 0 THEN a ELSE GCD(b, a % b)

Norm(n, d) ==
    LET g == GCD(Abs(n), Abs(d))
        s == IF d < 0 THEN -1 ELSE 1
    IN  <<(s * n) \div g, (s * d) \div g>>

Rat(n) == <<n, 1>>

Zero == Rat(0)

RAdd(a, b) == Norm(a[1] * b[2] + b[1] * a[2], a[2] * b[2])

RSub(a, b) == Norm(a[1] * b[2] - b[1] * a[2], a[2] * b[2])

RMul(a, b) == Norm(a[1] * b[1], a[2] * b[2])

RDiv(a, b) == Norm(a[1] * b[2], a[2] * b[1])

RLt(a, b) == a[1] * b[2] < b[1] * a[2]

RGt(a, b) == RLt(b, a)

RLeq(a, b) == ~RLt(b, a)

\* ---------------------------------------------------------------------
\* Sector set and model artifacts
\* ---------------------------------------------------------------------
STOCK_SECTORS ==
    {"Basic Materials", "Communication Services", "Consumer Cyclical",
     "Consumer Defensive", "Energy", "Financial Services", "Healthcare",
     "Industrials", "Real Estate", "Technology", "Utilities", "Unknown"}

\* Sector names the lookup collaborator can report; "Crypto" is outside
\* STOCK_SECTORS.
SectorNames == {"Technology", "Unknown", "Crypto"}

model_path(sector) == <<"Models", sector, "joblib">>

scaler_path(sector) == <<"Models", sector, "scaler.joblib">>

\* Contents of the Models/ directory.
ArtifactStores ==
    { {model_path("Technology"), scaler_path("Technology"),
       model_path("Unknown"), scaler_path("Unknown")},
      {model_path("Technology"), scaler_path("Technology")},
      {model_path("Technology"), scaler_path("Unknown")} }

\* Every path signal() can ask joblib for.
ArtifactPaths ==
    {model_path(s) : s \in SectorNames} \cup {scaler_path(s) : s \in SectorNames}

\* Mutant: only the model file is looked for before loading.
signal_ModelOnly(sec, files, model_pred) ==
    LET s == IF sec \notin STOCK_SECTORS THEN "Unknown" ELSE sec
    IN  IF model_path(s) \notin files
        THEN 0
        ELSE model_pred

\* signal(): model_pred stands for model.predict(scaler.transform(X))[0].
signal(sec, files, model_pred) ==
    LET s == IF sec \notin STOCK_SECTORS THEN "Unknown" ELSE sec
    IN  IF model_path(s) \notin files \/ scaler_path(s) \notin files
        THEN 0
        ELSE model_pred

\* The files one call of signal() hands to joblib.load.
signal_loads(sec, files) ==
    LET s == IF sec \notin STOCK_SECTORS THEN "Unknown" ELSE sec
    IN  IF model_path(s) \notin files \/ scaler_path(s) \notin files
        THEN {}
        ELSE {model_path(s), scaler_path(s)}

\* Mutant: a path already loaded is served from a memo and not loaded again.
count_loads_Memoized(counts, paths, calls) ==
    [q \in DOMAIN counts |->
        IF q \in paths /\ calls > 0 /\ counts[q] = 0 THEN 1 ELSE counts[q]]

\* The joblib.load tally after `calls` calls of signal() that each load
\* `paths`.
count_loads(counts, paths, calls) ==
    [q \in DOMAIN counts |->
        IF q \in paths THEN counts[q] + calls ELSE counts[q]]

\* ---------------------------------------------------------------------
\* get_ticker_sector
\* ---------------------------------------------------------------------
\* What yf.Ticker(ticker).info.get("sector") does: returns a sector name,
\* returns None, raises an error mentioning 404, raises any other error.
LookupOutcomes ==
    {[kind |-> "value", value |-> s] : s \in SectorNames}
    \cup {[kind |-> "none"], [kind |-> "raise404"], [kind |-> "raiseOther"]}

get_ticker_sector(t, cache, outcome) ==
    IF t \in DOMAIN cache
    THEN [sector |-> cache[t], cache |-> cache, quit |-> FALSE]
    ELSE IF outcome.kind = "raiseOther"
    THEN [sector |-> "Unknown", cache |-> cache, quit |-> TRUE]
    ELSE LET sec == IF outcome.kind = "value" THEN outcome.value ELSE "Unknown"
         IN  [sector |-> sec, cache |-> (t :> sec) @@ cache, quit |-> FALSE]

\* ---------------------------------------------------------------------
\* simulate: the portfolio rules
\* ---------------------------------------------------------------------
\* A portfolio p is [holding, cash, expenses], each a rational.
Portfolio0 == [holding |-> Zero, cash |-> Zero, expenses |-> Zero]

\* Mutants: the gain as a fraction instead of a percentage; the gain's
\* magnitude instead of the signed gain.
DailyPctGain_Fraction(price, last) ==
    IF last # 0
    THEN RDiv(RSub(Rat(price), Rat(last)), Rat(last))
    ELSE Zero

DailyPctGain_Magnitude(price, last) ==
    IF last # 0
    THEN RMul(RDiv(Rat(Abs(price - last)), Rat(last)), Rat(100))
    ELSE Zero

DailyPctGain(price, last) ==
    IF last # 0
    THEN RMul(RDiv(RSub(Rat(price), Rat(last)), Rat(last)), Rat(100))
    ELSE Zero

\* Mutants: the top-up debits cash without injecting the shortfall; a sale
\* repays expenses out of the proceeds; a neutral prediction sells.
HoldingBranch_NoInject(p, price, pr, gain) ==
    IF pr >= 0
    THEN IF RGt(gain, Zero)
         THEN LET additional_shares == RMul(p.holding, RDiv(gain, Rat(100)))
                  cost == RMul(additional_shares, Rat(price))
              IN  [holding |-> RAdd(p.holding, additional_shares),
                   cash |-> RSub(p.cash, cost),
                   expenses |-> p.expenses]
         ELSE p
    ELSE [holding |-> Zero,
          cash |-> RAdd(p.cash, RMul(p.holding, Rat(price))),
          expenses |-> p.expenses]

HoldingBranch_SaleRepays(p, price, pr, gain) ==
    IF pr >= 0
    THEN IF RGt(gain, Zero)
         THEN LET additional_shares == RMul(p.holding, RDiv(gain, Rat(100)))
                  cost == RMul(additional_shares, Rat(price))
                  needed == RSub(cost, p.cash)
                  inj == IF RLt(p.cash, cost)
                         THEN [cash |-> RAdd(p.cash, needed),
                               expenses |-> RAdd(p.expenses, needed)]
                         ELSE [cash |-> p.cash, expenses |-> p.expenses]
              IN  [holding |-> RAdd(p.holding, additional_shares),
                   cash |-> RSub(inj.cash, cost),
                   expenses |-> inj.expenses]
         ELSE p
    ELSE LET proceeds == RMul(p.holding, Rat(price))
             repaid == IF RLt(proceeds, p.expenses) THEN proceeds ELSE p.expenses
         IN  [holding |-> Zero,
              cash |-> RAdd(p.cash, RSub(proceeds, repaid)),
              expenses |-> RSub(p.expenses, repaid)]

HoldingBranch_SellOnNeutral(p, price, pr, gain) ==
    IF pr > 0
    THEN IF RGt(gain, Zero)
         THEN LET additional_shares == RMul(p.holding, RDiv(gain, Rat(100)))
                  cost == RMul(additional_shares, Rat(price))
                  needed == RSub(cost, p.cash)
                  inj == IF RLt(p.cash, cost)
                         THEN [cash |-> RAdd(p.cash, needed),
                               expenses |-> RAdd(p.expenses, needed)]
                         ELSE [cash |-> p.cash, expenses |-> p.expenses]
              IN  [holding |-> RAdd(p.holding, additional_shares),
                   cash |-> RSub(inj.cash, cost),
                   expenses |-> inj.expenses]
         ELSE p
    ELSE LET proceeds == RMul(p.holding, Rat(price))
         IN  [holding |-> Zero,
              cash |-> RAdd(p.cash, proceeds),
              expenses |-> p.expenses]

HoldingBranch(p, price, pr, gain) ==
    IF pr >= 0
    THEN IF RGt(gain, Zero)
         THEN LET additional_shares == RMul(p.holding, RDiv(gain, Rat(100)))
                  cost == RMul(additional_shares, Rat(price))
                  needed == RSub(cost, p.cash)
                  inj == IF RLt(p.cash, cost)
                         THEN [cash |-> RAdd(p.cash, needed),
                               expenses |-> RAdd(p.expenses, needed)]
                         ELSE [cash |-> p.cash, expenses |-> p.expenses]
              IN  [holding |-> RAdd(p.holding, additional_shares),
                   cash |-> RSub(inj.cash, cost),
                   expenses |-> inj.expenses]
         ELSE p
    ELSE LET proceeds == RMul(p.holding, Rat(price))
         IN  [holding |-> Zero,
              cash |-> RAdd(p.cash, proceeds),
              expenses |-> p.expenses]

\* Mutants: the whole cost is injected whenever cash falls short; the
\* whole cost is booked as expense while only the shortfall is added to
\* cash; only a strictly positive prediction buys.
FlatBranch_InjectFullCost(p, price, pr) ==
    IF pr >= 0
    THEN LET cost == Rat(1000)
             needed == cost
             inj == IF RLt(p.cash, cost)
                    THEN [cash |-> RAdd(p.cash, needed),
                          expenses |-> RAdd(p.expenses, needed)]
                    ELSE [cash |-> p.cash, expenses |-> p.expenses]
             shares_bought == RDiv(cost, Rat(price))
         IN  [holding |-> RAdd(p.holding, shares_bought),
              cash |-> RSub(inj.cash, cost),
              expenses |-> inj.expenses]
    ELSE p

FlatBranch_ExpenseWholeCost(p, price, pr) ==
    IF pr >= 0
    THEN LET cost == Rat(1000)
             needed == RSub(cost, p.cash)
             inj == IF RLt(p.cash, cost)
                    THEN [cash |-> RAdd(p.cash, needed),
                          expenses |-> RAdd(p.expenses, cost)]
                    ELSE [cash |-> p.cash, expenses |-> p.expenses]
             shares_bought == RDiv(cost, Rat(price))
         IN  [holding |-> RAdd(p.holding, shares_bought),
              cash |-> RSub(inj.cash, cost),
              expenses |-> inj.expenses]
    ELSE p

FlatBranch_StrictPositive(p, price, pr) ==
    IF pr > 0
    THEN LET cost == Rat(1000)
             needed == RSub(cost, p.cash)
             inj == IF RLt(p.cash, cost)
                    THEN [cash |-> RAdd(p.cash, needed),
                          expenses |-> RAdd(p.expenses, needed)]
                    ELSE [cash |-> p.cash, expenses |-> p.expenses]
             shares_bought == RDiv(cost, Rat(price))
         IN  [holding |-> RAdd(p.holding, shares_bought),
              cash |-> RSub(inj.cash, cost),
              expenses |-> inj.expenses]
    ELSE p

FlatBranch(p, price, pr) ==
    IF pr >= 0
    THEN LET cost == Rat(1000)
             needed == RSub(cost, p.cash)
             inj == IF RLt(p.cash, cost)
                    THEN [cash |-> RAdd(p.cash, needed),
                          expenses |-> RAdd(p.expenses, needed)]
                    ELSE [cash |-> p.cash, expenses |-> p.expenses]
             shares_bought == RDiv(cost, Rat(price))
         IN  [holding |-> RAdd(p.holding, shares_bought),
              cash |-> RSub(inj.cash, cost),
              expenses |-> inj.expenses]
    ELSE p

DayTransition(p, price, pr, gain) ==
    IF RGt(p.holding, Zero)
    THEN HoldingBranch(p, price, pr, gain)
    ELSE FlatBranch(p, price, pr)

\* Mutant: the position is left open at the end.
TerminalLiquidation_Skip(p, final_price) == p

TerminalLiquidation(p, final_price) ==
    IF RGt(p.holding, Zero)
    THEN LET proceeds == RMul(p.holding, Rat(final_price))
         IN  [holding |-> Zero,
              cash |-> RAdd(p.cash, proceeds),
              expenses |-> p.expenses]
    ELSE p

\* The value standing for a raised ZeroDivisionError: no rational has a zero
\* denominator.
ZeroDivisionError == <<0, 0>>

\* Mutant: the ratio is computed without looking at expenses first.
ProfitPct_NoGuard(c, e) ==
    IF e[1] = 0 THEN ZeroDivisionError
                ELSE RMul(RDiv(RSub(c, e), e), Rat(100))

ProfitPct(c, e) ==
    IF RGt(e, Zero)
    THEN (IF e[1] = 0 THEN ZeroDivisionError
                      ELSE RMul(RDiv(RSub(c, e), e), Rat(100)))
    ELSE Zero

\* The whole day loop, rows k..Len(rows), as one function.
RECURSIVE RunDays(_, _, _, _, _)
RunDays(rows, preds, k, p, last) ==
    IF k > Len(rows)
    THEN p
    ELSE LET price == rows[k]
             l == IF last = <<>> THEN price ELSE last[1]
         IN  RunDays(rows, preds, k + 1,
                     DayTransition(p, price, preds[k], DailyPctGain(price, l)),
                     <<price>>)

\* simulate(ticker, start, end) as one function of what its collaborators
\* answer: fetched is [empty |-> TRUE] or [empty |-> FALSE, rows |-> ...],
\* outcome the sector lookup's answer, model_preds the classifier's labels.
simulate(t, cache, files, fetched, outcome, model_preds) ==
    IF fetched.empty
    THEN [ret |-> None, cache |-> cache, quit |-> FALSE,
          calls |-> 0, paths |-> {}]
    ELSE LET r == get_ticker_sector(t, cache, outcome)
             rows == fetched.rows
             preds == [k \in 1..Len(rows) |->
                          signal(r.sector, files, model_preds[k])]
             p == RunDays(rows, preds, 1, Portfolio0, <<>>)
             q == TerminalLiquidation(
                     p, IF Len(rows) > 0 THEN rows[Len(rows)] ELSE 0)
         IN  IF r.quit
             THEN [ret |-> None, cache |-> cache, quit |-> TRUE,
                   calls |-> 0, paths |-> {}]
             ELSE [ret |-> <<q.expenses, q.cash, ProfitPct(q.cash, q.expenses)>>,
                   cache |-> r.cache, quit |-> FALSE,
                   calls |-> Len(rows),
                   paths |-> signal_loads(r.sector, files)]

\* The ledger entry of a change of position at a price: what the shares
\* added cost, what the shares removed fetched.
TradeCost(before, after, price) ==
    IF RGt(after, before) THEN RMul(RSub(after, before), Rat(price)) ELSE Zero

TradeProceeds(before, after, price) ==
    IF RLt(after, before) THEN RMul(RSub(before, after), Rat(price)) ELSE Zero

\* ---------------------------------------------------------------------
\* State
\* ---------------------------------------------------------------------
VARIABLES
    pc,              \* simulate: "start", "loop", "done", "quit"
    ticker,          \* simulate's argument
    df,              \* Adj Close column of the processed frame
    i,               \* number of rows the day loop has consumed
    holding, cash, expenses,
    last_price,      \* <<>> for None, <<x>> once a day has set it
    daily_pct_gain,  \* None before the first day
    pred,            \* None before the first day
    preds,           \* what signal() returned on each day so far
    sector,          \* None until looked up
    ticker_cache,    \* the module-level dict `sectors`
    artifacts,       \* files present under Models/
    loads,           \* how often joblib.load has read each artifact path
    bought, sold,    \* ledger: total cost of shares bought / proceeds of sales
    result,          \* simulate's return value, "pending" until it returns
    bt_pc,           \* backTest: "idle", "loop", "done", "quit"
    bt_idx,          \* position of the for loop in tickers
    profit_pcts,     \* the dict backTest builds
    no_data,         \* tickers whose fetch came back empty
    pd_pc,           \* process_data: "idle", "start", "done"
    raw,             \* the frame handed to process_data
    out,             \* the frame process_data returns
    pd_error         \* "none", or the exception process_data ended with

simVars == <<pc, ticker, df, i, holding, cash, expenses, last_price,
             daily_pct_gain, pred, preds, sector, ticker_cache, artifacts,
             loads, bought, sold, result>>

btVars == <<bt_pc, bt_idx, profit_pcts, no_data>>

pdVars == <<pd_pc, raw, out, pd_error>>

vars == <<simVars, btVars, pdVars>>

\* Frames of at most n rows.
RECURSIVE Frames(_)
Frames(n) ==
    IF n = 0 THEN {<<>>}
    ELSE LET shorter == Frames(n - 1)
         IN  shorter \cup
             {Append(f, x) : f \in {g \in shorter : Len(g) = n - 1}, x \in Prices}

InitialCaches ==
    {<<>>} \cup {(1 :> s) : s \in {"Technology", "Crypto"}}

Init ==
    /\ pc = "start"
    /\ ticker = 1
    /\ df = <<>>
    /\ i = 0
    /\ holding = Zero
    /\ cash = Zero
    /\ expenses = Zero
    /\ last_price = <<>>
    /\ daily_pct_gain = None
    /\ pred = None
    /\ preds = <<>>
    /\ sector = None
    /\ ticker_cache \in InitialCaches
    /\ artifacts \in ArtifactStores
    /\ loads = [q \in ArtifactPaths |-> 0]
    /\ bought = Zero
    /\ sold = Zero
    /\ result = "pending"
    /\ bt_pc = "idle"
    /\ bt_idx = 1
    /\ profit_pcts = <<>>
    /\ no_data = {}
    /\ pd_pc = "idle"
    /\ raw = <<>>
    /\ out = <<>>
    /\ pd_error = "none"

\* fetch_adjusted_df returned an empty frame: simulate returns None.
FetchEmpty ==
    /\ pc = "start"
    /\ pc' = "done"
    /\ result' = None
    /\ UNCHANGED <<ticker, df, i, holding, cash, expenses, last_price,
                   daily_pct_gain, pred, preds, sector, ticker_cache,
                   artifacts, loads, bought, sold, btVars, pdVars>>

\* The fetch returned rows; process_data leaves `rows`; the sector is looked
\* up, which may end the process.
Prepare ==
    /\ pc = "start"
    /\ \E rows \in Frames(MaxDays), outcome \in LookupOutcomes :
          LET r == get_ticker_sector(ticker, ticker_cache, outcome)
          IN  IF r.quit
              THEN /\ pc' = "quit"
                   /\ UNCHANGED <<df, sector, ticker_cache>>
              ELSE /\ pc' = "loop"
                   /\ df' = rows
                   /\ sector' = r.sector
                   /\ ticker_cache' = r.cache
    /\ UNCHANGED <<ticker, i, holding, cash, expenses, last_price,
                   daily_pct_gain, pred, preds, artifacts, loads, bought, sold,
                   result, btVars, pdVars>>

\* One iteration of `for i, row in df.iterrows()`.
Day ==
    /\ pc = "loop"
    /\ i < Len(df)
    /\ \E model_pred \in Labels :
          LET price == df[i + 1]
              last  == IF last_price = <<>> THEN price ELSE last_price[1]
              gain  == DailyPctGain(price, last)
              pr    == signal(sector, artifacts, model_pred)
              p     == DayTransition(
                          [holding |-> holding, cash |-> cash,
                           expenses |-> expenses], price, pr, gain)
          IN  /\ daily_pct_gain' = gain
              /\ pred' = pr
              /\ preds' = Append(preds, pr)
              /\ holding' = p.holding
              /\ cash' = p.cash
              /\ expenses' = p.expenses
              /\ last_price' = <<price>>
              /\ bought' = RAdd(bought, TradeCost(holding, p.holding, price))
              /\ sold' = RAdd(sold, TradeProceeds(holding, p.holding, price))
    /\ loads' = count_loads(loads, signal_loads(sector, artifacts), 1)
    /\ i' = i + 1
    /\ UNCHANGED <<pc, ticker, df, sector, ticker_cache, artifacts, result,
                   btVars, pdVars>>

\* After the loop: sell what is left, compute the profit, return.
Finish ==
    /\ pc = "loop"
    /\ i = Len(df)
    /\ LET p == TerminalLiquidation(
                   [holding |-> holding, cash |-> cash, expenses |-> expenses],
                   IF Len(df) > 0 THEN df[Len(df)] ELSE 0)
       IN  /\ holding' = p.holding
           /\ cash' = p.cash
           /\ expenses' = p.expenses
           /\ result' = <<p.expenses, p.cash, ProfitPct(p.cash, p.expenses)>>
           /\ sold' = RAdd(sold, TradeProceeds(holding, p.holding,
                                  IF Len(df) > 0 THEN df[Len(df)] ELSE 0))
    /\ pc' = "done"
    /\ UNCHANGED <<ticker, df, i, last_price, daily_pct_gain, pred, preds,
                   sector, ticker_cache, artifacts, loads, bought, btVars, pdVars>>

Next == FetchEmpty \/ Prepare \/ Day \/ Finish

Spec == Init /\ [][Next]_vars

\* ---------------------------------------------------------------------
\* backTest
\* ---------------------------------------------------------------------
MaxBTDays == 2

tickers == [k \in 1..MaxTickers |-> k]

InitBT ==
    /\ pc = "idle"
    /\ ticker = 0
    /\ df = <<>>
    /\ i = 0
    /\ holding = Zero
    /\ cash = Zero
    /\ expenses = Zero
    /\ last_price = <<>>
    /\ daily_pct_gain = None
    /\ pred = None
    /\ preds = <<>>
    /\ sector = None
    /\ result = "pending"
    /\ ticker_cache \in InitialCaches
    /\ artifacts \in ArtifactStores
    /\ loads = [q \in ArtifactPaths |-> 0]
    /\ bought = Zero
    /\ sold = Zero
    /\ bt_pc = "loop"
    /\ bt_idx = 1
    /\ profit_pcts = <<>>
    /\ no_data = {}
    /\ pd_pc = "idle"
    /\ raw = <<>>
    /\ out = <<>>
    /\ pd_error = "none"

Fetches ==
    {[empty |-> TRUE]} \cup {[empty |-> FALSE, rows |-> f] : f \in Frames(MaxBTDays)}

\* One iteration of `for ticker in tickers`.
BackTestIter ==
    /\ bt_pc = "loop"
    /\ bt_idx <= Len(tickers)
    /\ \E fetched \in Fetches, outcome \in LookupOutcomes,
          model_preds \in [1..MaxBTDays -> Labels] :
          LET t == tickers[bt_idx]
              r == simulate(t, ticker_cache, artifacts, fetched, outcome,
                            model_preds)
          IN  IF r.quit
              THEN /\ bt_pc' = "quit"
                   /\ UNCHANGED <<bt_idx, profit_pcts, no_data, ticker_cache,
                                  loads>>
              ELSE /\ profit_pcts' = (t :> r.ret) @@ profit_pcts
                   /\ no_data' = IF fetched.empty THEN no_data \cup {t}
                                                  ELSE no_data
                   /\ ticker_cache' = r.cache
                   /\ loads' = count_loads(loads, r.paths, r.calls)
                   /\ bt_idx' = bt_idx + 1
                   /\ UNCHANGED bt_pc
    /\ UNCHANGED <<pc, ticker, df, i, holding, cash, expenses, last_price,
                   daily_pct_gain, pred, preds, sector, artifacts, bought, sold,
                   result, pdVars>>

BackTestReturn ==
    /\ bt_pc = "loop"
    /\ bt_idx > Len(tickers)
    /\ bt_pc' = "done"
    /\ UNCHANGED <<simVars, bt_idx, profit_pcts, no_data, pdVars>>

NextBT == BackTestIter \/ BackTestReturn

SpecBT == InitBT /\ [][NextBT]_vars

\* ---------------------------------------------------------------------
\* process_data (ml/data.py)
\* ---------------------------------------------------------------------
\* Column values are floats: a rational, or NaN (<<0, 0>>), or +/-infinity
\* (<<1, 0>>, <<-1, 0>>).
NaN == <<0, 0>>

IsNaN(x) == x[2] = 0 /\ x[1] = 0

IsInf(x) == x[2] = 0 /\ x[1] # 0

Sgn(n) == IF n > 0 THEN 1 ELSE IF n < 0 THEN -1 ELSE 0

FNeg(a) == <<-a[1], a[2]>>

FAdd(a, b) ==
    IF IsNaN(a) \/ IsNaN(b) THEN NaN
    ELSE IF IsInf(a) /\ IsInf(b) THEN (IF a = b THEN a ELSE NaN)
    ELSE IF IsInf(a) THEN a
    ELSE IF IsInf(b) THEN b
    ELSE RAdd(a, b)

FSub(a, b) == FAdd(a, FNeg(b))

FMul(a, b) ==
    IF IsNaN(a) \/ IsNaN(b) THEN NaN
    ELSE IF IsInf(a) \/ IsInf(b)
         THEN (IF a[1] = 0 \/ b[1] = 0 THEN NaN
                                        ELSE <<Sgn(a[1]) * Sgn(b[1]), 0>>)
    ELSE RMul(a, b)

FDiv(a, b) ==
    IF IsNaN(a) \/ IsNaN(b) THEN NaN
    ELSE IF IsInf(a) THEN (IF IsInf(b) THEN NaN
                           ELSE <<Sgn(a[1]) * (IF b[1] < 0 THEN -1 ELSE 1), 0>>)
    ELSE IF IsInf(b) THEN Zero
    ELSE IF b[1] = 0 THEN <<Sgn(a[1]), 0>>
    ELSE RDiv(a, b)

FAbs(a) == <<Abs(a[1]), a[2]>>

FMax(a, b) == IF RLt(a, b) THEN b ELSE a

\* df.sort_values('Date').reset_index(drop=True), for distinct dates.
RECURSIVE sort_values(_)
sort_values(frame) ==
    IF frame = <<>> THEN <<>>
    ELSE LET m == CHOOSE k \in 1..Len(frame) :
                     \A j \in 1..Len(frame) : frame[k].Date <= frame[j].Date
             rest == [j \in 1..(Len(frame) - 1) |->
                         IF j < m THEN frame[j] ELSE frame[j + 1]]
         IN  <<frame[m]>> \o sort_values(rest)

\* Series.shift(periods), periods of either sign.
shift(col, k, periods) ==
    IF k - periods < 1 \/ k - periods > Len(col) THEN NaN ELSE col[k - periods]

\* Series.pct_change(periods, fill_method=None): col / col.shift(periods) - 1.
pct_change(col, k, periods) ==
    FSub(FDiv(col[k], shift(col, k, periods)), Rat(1))

RECURSIVE SumWindow(_, _, _)
SumWindow(col, lo, hi) ==
    IF lo > hi THEN Zero ELSE FAdd(col[lo], SumWindow(col, lo + 1, hi))

\* Mutant: a window cut short by the start of the series is averaged over
\* the samples it has.
rolling_mean_Partial(col, k, window) ==
    LET lo == IF k < window THEN 1 ELSE k - window + 1
    IN  IF \E j \in lo..k : IsNaN(col[j])
        THEN NaN
        ELSE FDiv(SumWindow(col, lo, k), Rat(k - lo + 1))

\* Series.rolling(window).mean(): NaN until the window holds `window`
\* non-NaN samples.
rolling_mean(col, k, window) ==
    IF k < window \/ \E j \in (k - window + 1)..k : IsNaN(col[j])
    THEN NaN
    ELSE FDiv(SumWindow(col, k - window + 1, k), Rat(window))

\* Series.rolling(window).std() squared: the sample variance of the window.
rolling_var(col, k, window) ==
    IF k < window \/ \E j \in (k - window + 1)..k : IsNaN(col[j])
    THEN NaN
    ELSE LET mean == rolling_mean(col, k, window)
             sq == [j \in 1..Len(col) |->
                       FMul(FSub(col[j], mean), FSub(col[j], mean))]
         IN  FDiv(SumWindow(sq, k - window + 1, k), Rat(window - 1))

\* The names of the derived columns and of the label.
DerivedCols ==
    {"Pct_Change_Close", "Pct_Change_3d", "Ma5", "Ma20", "Close_to_Ma5",
     "Close_to_Ma20", "Ma5_minus_Ma20", "Range_Ratio", "Pct_Change_Volume",
     "Va5", "Va20", "Volume_to_Va5", "Volume_to_Va20", "Lagged_Volume_3d",
     "Std_5d", "Previous_Close", "TR", "ATR_14", "RSI_14", "Momentum_10",
     "Target"}

\* The frame after every column has been added (data.py lines 35-108);
\* Std_5d carries the variance, i.e. the square of the value pandas stores.
enrich(frame) ==
    LET s == sort_values(frame)
        n == Len(s)
        close == [k \in 1..n |-> Rat(s[k].Close)]
        volume == [k \in 1..n |-> Rat(s[k].Volume)]
        high == [k \in 1..n |-> Rat(s[k].High)]
        low == [k \in 1..n |-> Rat(s[k].Low)]
        Ma5 == [k \in 1..n |-> rolling_mean(close, k, 5)]
        Ma20 == [k \in 1..n |-> rolling_mean(close, k, 20)]
        Va5 == [k \in 1..n |-> rolling_mean(volume, k, 5)]
        Va20 == [k \in 1..n |-> rolling_mean(volume, k, 20)]
        Previous_Close == [k \in 1..n |-> shift(close, k, 1)]
        TR == [k \in 1..n |->
                 FMax(FSub(high[k], low[k]),
                      FMax(IF IsNaN(Previous_Close[k]) THEN Zero
                           ELSE FAbs(FSub(high[k], Previous_Close[k])),
                           IF IsNaN(Previous_Close[k]) THEN Zero
                           ELSE FAbs(FSub(low[k], Previous_Close[k]))))]
        delta == [k \in 1..n |-> FSub(close[k], shift(close, k, 1))]
        gain == [k \in 1..n |->
                   IF IsNaN(delta[k]) THEN NaN
                   ELSE IF RLt(delta[k], Zero) THEN Zero ELSE delta[k]]
        loss == [k \in 1..n |->
                   IF IsNaN(delta[k]) THEN NaN
                   ELSE IF RGt(delta[k], Zero) THEN Zero ELSE FNeg(delta[k])]
    IN  [k \in 1..n |->
           LET rs == FDiv(rolling_mean(gain, k, 14), rolling_mean(loss, k, 14))
               next == shift(close, k, -1)
           IN  [Date |-> s[k].Date,
                High |-> high[k],
                Low |-> low[k],
                AdjClose |-> close[k],
                Volume |-> volume[k],
                Pct_Change_Close |-> FMul(pct_change(close, k, 1), Rat(100)),
                Pct_Change_3d |-> FMul(pct_change(close, k, 3), Rat(100)),
                Ma5 |-> Ma5[k],
                Ma20 |-> Ma20[k],
                Close_to_Ma5 |-> FDiv(close[k], Ma5[k]),
                Close_to_Ma20 |-> FDiv(close[k], Ma20[k]),
                Ma5_minus_Ma20 |-> FSub(Ma5[k], Ma20[k]),
                Range_Ratio |-> FDiv(FSub(high[k], low[k]), close[k]),
                Pct_Change_Volume |-> FMul(pct_change(volume, k, 1), Rat(100)),
                Va5 |-> Va5[k],
                Va20 |-> Va20[k],
                Volume_to_Va5 |-> FDiv(volume[k], Va5[k]),
                Volume_to_Va20 |-> FDiv(volume[k], Va20[k]),
                Lagged_Volume_3d |-> shift(volume, k, 3),
                Std_5d |-> rolling_var(close, k, 5),
                Previous_Close |-> Previous_Close[k],
                TR |-> TR[k],
                ATR_14 |-> rolling_mean(TR, k, 14),
                RSI_14 |-> FSub(Rat(100), FDiv(Rat(100), FAdd(Rat(1), rs))),
                Momentum_10 |-> FSub(close[k], shift(close, k, 10)),
                Target |-> IF IsNaN(next) THEN NaN
                           ELSE IF RGt(next, close[k]) THEN Rat(1)
                           ELSE IF RLt(next, close[k]) THEN Rat(-1)
                           ELSE Zero]]

\* Mutant: infinities are not replaced before the NaN rows are dropped.
RowComplete_NaNOnly(row) ==
    \A c \in DOMAIN row : c = "Date" \/ ~IsNaN(row[c])

\* df.replace([inf, -inf], nan) followed by df.dropna(): a row survives when
\* no cell of it is NaN or infinite.
RowComplete(row) ==
    \A c \in DOMAIN row : c = "Date" \/ (~IsNaN(row[c]) /\ ~IsInf(row[c]))

process_data(frame) == SelectSeq(enrich(frame), RowComplete)

\* Input histories: n bars on consecutive trading days (weekends skipped),
\* closes following a shape, optionally one bar with a zero close or a zero
\* volume (or no volume at all), handed over in one of three orders.
MaxBars == 23

Shapes == {"zigzag", "rising", "flat"}

Specials == {"none", "close0", "volume0", "novolume"}

Orders == {"asc", "desc", "rotated"}

BarDate(k) == k + 2 * ((k - 1) \div 5)

Bar(shape, special, z, k) ==
    LET c == IF special = "close0" /\ k = z THEN 0
             ELSE IF shape = "zigzag" THEN 10 + 2 * ((k * k) % 3)
             ELSE IF shape = "rising" THEN 10 + k
             ELSE 10
    IN  [Date |-> BarDate(k),
         High |-> c + 1,
         Low |-> IF c = 0 THEN 0 ELSE c - 1,
         Close |-> c,
         Volume |-> IF special = "novolume" \/ (special = "volume0" /\ k = z)
                    THEN 0
                    ELSE 100 + 10 * (k % 2)]

History(n, shape, special, z, order) ==
    [j \in 1..n |->
        Bar(shape, special, z,
            IF order = "asc" THEN j
            ELSE IF order = "desc" THEN n + 1 - j
            ELSE (j % n) + 1)]

\* Lengths: none, too short for any window, and around the 20-bar window.
BarCounts == {0, 1, 2, 6} \cup ((MaxBars - 4)..MaxBars)

\* Where the special bar sits: first, or among the last five.
SpecialAt(n) == {z \in 1..n : z = 1 \/ z >= n - 4}

Histories ==
    {History(n, shape, "none", 0, order) :
        n \in BarCounts, shape \in Shapes, order \in Orders}
    \cup
    {History(n, shape, "novolume", 0, order) :
        n \in BarCounts \ {0}, shape \in Shapes, order \in Orders}
    \cup
    UNION {{History(n, shape, special, z, order) :
               z \in SpecialAt(n), special \in {"close0", "volume0"}} :
            n \in BarCounts \ {0}, shape \in Shapes, order \in Orders}

InitPD ==
    /\ pc = "idle"
    /\ ticker = 0
    /\ df = <<>>
    /\ i = 0
    /\ holding = Zero
    /\ cash = Zero
    /\ expenses = Zero
    /\ last_price = <<>>
    /\ daily_pct_gain = None
    /\ pred = None
    /\ preds = <<>>
    /\ sector = None
    /\ result = "pending"
    /\ ticker_cache = <<>>
    /\ artifacts = {}
    /\ loads = [q \in ArtifactPaths |-> 0]
    /\ bought = Zero
    /\ sold = Zero
    /\ bt_pc = "idle"
    /\ bt_idx = 1
    /\ profit_pcts = <<>>
    /\ no_data = {}
    /\ pd_pc = "start"
    /\ raw \in Histories
    /\ out = <<>>
    /\ pd_error = "none"

\* process_data on a frame with rows.
ProcessRows ==
    /\ pd_pc = "start"
    /\ raw # <<>>
    /\ out' = process_data(raw)
    /\ pd_error' = "none"
    /\ pd_pc' = "done"
    /\ UNCHANGED <<simVars, btVars, raw>>

\* process_data on a frame without rows. The function does not look at the
\* length of its input; what pandas does with the empty frame (return an
\* empty frame, or fail inside one of the column assignments) depends on
\* the frame's columns and on the pandas release.
ProcessEmpty ==
    /\ pd_pc = "start"
    /\ raw = <<>>
    /\ out' = <<>>
    /\ pd_error' \in {"none", "PandasError"}
    /\ pd_pc' = "done"
    /\ UNCHANGED <<simVars, btVars, raw>>

NextPD == ProcessRows \/ ProcessEmpty

SpecPD == InitPD /\ [][NextPD]_vars

\* ---------------------------------------------------------------------
\* Properties of simulate (checked under Spec)
\* ---------------------------------------------------------------------
\* A step of Spec that is one iteration of the day loop.
IsDayStep == pc = "loop" /\ i' = i + 1

\* C1: holding is 0 before the first simulated day and 0 again after the
\* terminal liquidation step that follows the last day.
C1_FlatBeforeAndAfter ==
    /\ (pc \in {"start", "loop"} /\ i = 0) => holding = Zero
    /\ pc = "done" => holding = Zero

\* A run that was still Holding after its last day and has returned.
C1_Witness ==
    /\ pc = "done"
    /\ i >= 2
    /\ pred >= 0
    /\ holding = Zero
    /\ RGt(result[2], Zero)

C3_ExpensesMonotone ==
    [][ /\ RLeq(expenses, expenses')
        /\ expenses' # expenses =>
              /\ IsDayStep
              /\ RGt(holding', holding)
              /\ RLt(cash, RMul(RSub(holding', holding), Rat(df[i'])))
        /\ RLt(holding', holding) => expenses' = expenses ]_vars

\* Shares bought with injected capital have been sold again.
C3_Witness ==
    /\ pc = "loop"
    /\ i >= 2
    /\ holding = Zero
    /\ RGt(cash, Zero)
    /\ RGt(expenses, Zero)

C8_ScenarioB ==
    (df = <<100, 110>> /\ i >= 1 /\ preds[1] = 1) =>
       /\ (pc = "loop" /\ i = 1) =>
             holding = Rat(10) /\ cash = Zero /\ expenses = Rat(1000)
       /\ (i = 2 /\ preds[2] = 1) =>
             /\ pc = "loop" =>
                   holding = Rat(11) /\ cash = Zero /\ expenses = Rat(1110)
             /\ pc = "done" =>
                   result = <<Rat(1110), Rat(1210), Norm(100 * 100, 1110)>>

C8_Witness ==
    /\ pc = "done"
    /\ df = <<100, 110>>
    /\ preds = <<1, 1>>
    /\ result[3] = <<1000, 111>>

\* C9: a run that returns a triple returns (expenses, cash, profit_pct) with
\* profit_pct = (cash - expenses) / expenses * 100 when expenses > 0 and 0
\* otherwise, never a division by zero; with every prediction < 0 the run
\* is never Holding and returns (0, 0, 0).
AllNegative == \A k \in 1..Len(preds) : preds[k] < 0

C9_ProfitPct ==
    /\ AllNegative => holding = Zero
    /\ (pc = "done" /\ result # None) =>
          /\ result[1] = expenses
          /\ result[2] = cash
          /\ result[3] # ZeroDivisionError
          /\ result[3] = IF RGt(expenses, Zero)
                         THEN RMul(RDiv(RSub(cash, expenses), expenses), Rat(100))
                         ELSE Zero
          /\ AllNegative => result = <<Zero, Zero, Zero>>

\* A run of two or more days, all predicted negative, has returned.
C9_Witness ==
    /\ pc = "done"
    /\ Len(df) >= 2
    /\ Len(preds) = Len(df)
    /\ AllNegative
    /\ result = <<Zero, Zero, Zero>>

\* The sector signal() looks up, and whether its artifact pair is incomplete.
Resolved == IF sector \in STOCK_SECTORS THEN sector ELSE "Unknown"

PairMissing ==
    model_path(Resolved) \notin artifacts \/ scaler_path(Resolved) \notin artifacts

C12_LoadedAtMostOnce == \A q \in DOMAIN loads : loads[q] <= 1

\* C12 as amended: nothing is memoized; every call of signal() whose
\* resolved sector has both files loads that model and that scaler again,
\* so after i days each of the two paths has been loaded i times, and no
\* other path has been loaded.
C12_LoadedOnEveryCall ==
    (pc \in {"loop", "done"} /\ sector # None) =>
       \A q \in DOMAIN loads :
          loads[q] = IF ~PairMissing
                        /\ q \in {model_path(Resolved), scaler_path(Resolved)}
                     THEN i
                     ELSE 0

\* Two days simulated with a complete pair: both files loaded twice.
C12_Witness ==
    /\ pc = "loop"
    /\ i = 2
    /\ ~PairMissing
    /\ loads[model_path(Resolved)] = 2
    /\ loads[scaler_path(Resolved)] = 2

InputDates == {raw[k].Date : k \in 1..Len(raw)}

OutDates == {out[k].Date : k \in 1..Len(out)}

\* Position of a date among the input dates, and the input bar at a position.
Rank(d) == Cardinality({e \in InputDates : e <= d})

BarAt(r) == raw[CHOOSE k \in 1..Len(raw) : Rank(raw[k].Date) = r]

\* Some quotient computed for the bar at position r >= 20 has a zero divisor.
ZeroDivisor(r) ==
    \/ BarAt(r).Close = 0
    \/ BarAt(r - 1).Close = 0
    \/ BarAt(r - 3).Close = 0
    \/ BarAt(r - 1).Volume = 0
    \/ \A j \in (r - 4)..r : BarAt(j).Close = 0
    \/ \A j \in (r - 19)..r : BarAt(j).Close = 0
    \/ \A j \in (r - 4)..r : BarAt(j).Volume = 0
    \/ \A j \in (r - 19)..r : BarAt(j).Volume = 0
    \/ \A j \in (r - 13)..r : BarAt(j).Close = BarAt(j - 1).Close

\* C14: for an input with distinct dates in any order, the output rows are
\* input rows, in strictly ascending date order, and are exactly the rows
\* whose derived fields and Target are all defined and finite; the last row
\* by date, every row with fewer than 20 bars up to it, and every row with
\* a zero divisor are dropped.
C14_SurvivingRows ==
    (pd_pc = "done" /\ raw # <<>>) =>
       LET E == enrich(raw)
       IN  /\ pd_error = "none"
           /\ \A k \in 1..(Len(out) - 1) : out[k].Date < out[k + 1].Date
           /\ \A k \in 1..Len(out) :
                 \E j \in 1..Len(raw) :
                    /\ raw[j].Date = out[k].Date
                    /\ out[k].High = Rat(raw[j].High)
                    /\ out[k].Low = Rat(raw[j].Low)
                    /\ out[k].AdjClose = Rat(raw[j].Close)
                    /\ out[k].Volume = Rat(raw[j].Volume)
           /\ \A j \in 1..Len(raw) :
                 LET d == raw[j].Date
                     r == Rank(d)
                     e == E[r]
                 IN  /\ e.Date = d
                     /\ (d \in OutDates) <=>
                           \A c \in DerivedCols : ~IsNaN(e[c]) /\ ~IsInf(e[c])
                     /\ r = Len(raw) => d \notin OutDates
                     /\ r < 20 => d \notin OutDates
                     /\ (r >= 20 /\ ZeroDivisor(r)) => d \notin OutDates

\* An unsorted input of full length came out as two rows in date order,
\* with an input row between them dropped.
C14_Witness ==
    /\ pd_pc = "done"
    /\ Len(raw) = MaxBars
    /\ raw[1].Date > raw[2].Date
    /\ Len(out) = 2
    /\ \E d \in InputDates : out[1].Date < d /\ d < out[2].Date

\* ---------------------------------------------------------------------
\* Properties of backTest (checked under SpecBT)
\* ---------------------------------------------------------------------
\* C10: the batch is never aborted, and when backTest returns every ticker
\* has an entry, which is None exactly for the tickers without data.
C10_BatchCompletes ==
    /\ bt_pc # "quit"
    /\ bt_pc = "done" =>
          /\ DOMAIN profit_pcts = {tickers[k] : k \in 1..Len(tickers)}
          /\ \A t \in DOMAIN profit_pcts :
                (profit_pcts[t] = None) <=> (t \in no_data)

====
